---- MODULE Spec2Model ----
(***************************************************************************)
(* Model of emotion_recognition.py: the capture / classify / present loop  *)
(* of EmotionRecognitionSystem (console front end) and EmotionGUI (Tk      *)
(* front end with a background process_video thread and an update_gui      *)
(* timer callback), with the logging and voice side effects.               *)
(*                                                                         *)
(* The console loop is single-threaded, so one iteration is one action.    *)
(* In the GUI the handlers of the Tk thread (start_camera, stop_camera,    *)
(* toggle_voice, update_gui) are one action each; process_video runs in    *)
(* its own thread and is cut at every access to state it shares with the   *)
(* Tk thread or with another process_video thread.                         *)
(***************************************************************************)
EXTENDS Integers, Sequences, FiniteSets, TLC

\* ------------------------------------------------------------- bounds
\* start_camera commands accepted in one run (each success is a new thread)
MaxStarts == 1
\* frames cap.read() delivers in one run, over all threads
MaxFrames == 3
\* seconds the clock advances past its initial reading
MaxClock == 1
\* start_camera commands accepted in one run of SpecRace and SpecRaceClock
RaceStarts == 2
\* frames cap.read() delivers in one run of SpecRace, over all threads
RaceFrames == 6
\* seconds the clock advances past its initial reading in SpecRaceClock
RaceClock == 3
\* start_camera commands accepted in one run of SpecSolo
SoloStarts == 1
\* frames cap.read() delivers in one run of SpecSolo
SoloFrames == 6

\* ------------------------------------------------- program constants
\* self.voice_cooldown = 3
voice_cooldown == 3
\* if frame_count % 3 == 0
frame_interval == 3
\* if confidence > 70
confidence_threshold == 70

VARIABLES
    mode,               \* main(): "console" (choice 1 or invalid) or "gui" (choice 2)
    cap,                \* self.cap: "none", "open", "unopened", "released"
    is_running,         \* EmotionRecognitionSystem.is_running
    current_emotion,    \* EmotionRecognitionSystem.current_emotion
    current_confidence, \* EmotionRecognitionSystem.current_confidence
    voice_enabled,      \* EmotionRecognitionSystem.voice_enabled
    last_voice_time,    \* EmotionRecognitionSystem.last_voice_time
    tts_engine,         \* TRUE when pyttsx3.init() succeeded
    log_file,           \* logs/emotion_log_<day>.json
    now,                \* time.time(), in seconds
    console,            \* run_console_mode: its position and locals
    gui_running,        \* EmotionGUI.is_running
    frame_queue,        \* EmotionGUI.frame_queue
    start_button,       \* state of the Start Camera button
    stop_button,        \* state of the Stop Camera button
    display,            \* video_label, emotion_label, confidence_label (or the cv2 window)
    after_pending,      \* update_gui callbacks scheduled with root.after
    messagebox,         \* the last error shown (showerror) or printed
    threads,            \* the process_video threads started so far
    fired,              \* history: the speech threads launched by speak_emotion
    log_calls,          \* history: the entries log_emotion was called to append
    io_failed,          \* history: TRUE once a log write has failed
    frames_read,        \* history: frames delivered by cap.read() in this run
    session_frames,     \* history: frames delivered since the last successful start
    detect_calls,       \* history: number of detect_emotion calls
    classified,         \* history: number of readings DeepFace.analyze returned
    last_reading,       \* history: the last successful classifier result
    published,          \* history: number of items put on frame_queue
    shown               \* history: publication number of the item last displayed

vars == <<mode, cap, is_running, current_emotion, current_confidence, voice_enabled,
          last_voice_time, tts_engine, log_file, now, console, gui_running,
          frame_queue, start_button, stop_button, display, after_pending,
          messagebox, threads, fired, log_calls, io_failed, frames_read,
          session_frames, detect_calls, classified, last_reading, published,
          shown>>

sysvars == <<cap, is_running, current_emotion, current_confidence, voice_enabled,
             last_voice_time, log_file>>
guivars == <<gui_running, frame_queue, start_button, stop_button, after_pending>>
histvars == <<fired, log_calls, io_failed, frames_read, session_frames,
              detect_calls, classified, last_reading, published, shown>>

\* ------------------------------------------------------------ values
\* What DeepFace.analyze can report: a dominant emotion, its score, the scores.
Reading(e, c) == [emotion |-> e, confidence |-> c, all_emotions |-> {<<e, c>>}]

Results == {Reading("happy", 82), Reading("neutral", 70)}

\* return "unknown", 0.0, {}
Sentinel == [emotion |-> "unknown", confidence |-> 0, all_emotions |-> {}]

\* a local that holds no classifier result
NoResult == [emotion |-> "", confidence |-> 0, all_emotions |-> {}]

\* str.upper() on the labels the program handles
Upper(s) ==
    CASE s = "happy" -> "HAPPY"
      [] s = "neutral" -> "NEUTRAL"
      [] s = "unknown" -> "UNKNOWN"
      [] s = "Unknown" -> "UNKNOWN"
      [] OTHER -> s

\* a local name no assignment has bound yet, and one bound to v
Unbound == [bound |-> FALSE, value |-> {}]
Bound(v) == [bound |-> TRUE, value |-> v]

AbsentFile == [exists |-> FALSE, valid |-> TRUE, logs |-> <<>>]
CorruptFile == [exists |-> TRUE, valid |-> FALSE, logs |-> <<>>]
JsonFile(logs) == [exists |-> TRUE, valid |-> TRUE, logs |-> logs]

InitialDisplay == [video |-> "Camera feed will appear here",
                   emotion |-> "Unknown", confidence |-> 0]

NewThread == [pc |-> "while", frame_count |-> 0, result |-> NoResult,
              logs |-> <<>>, current_time |-> 0, seen_voice |-> FALSE]

Init ==
    /\ mode \in {"console", "gui"}
    /\ cap = "none"
    /\ is_running = FALSE
    /\ current_emotion = "Unknown"
    /\ current_confidence = 0
    /\ voice_enabled = TRUE
    /\ last_voice_time = 0
    /\ tts_engine \in BOOLEAN
    /\ log_file = AbsentFile
    /\ now = voice_cooldown       \* the epoch clock is far past 0 + voice_cooldown
    /\ console = [pc |-> "start", frame_count |-> 0, all_emotions |-> Unbound]
    /\ gui_running = FALSE
    /\ frame_queue = <<>>
    /\ start_button = "normal"
    /\ stop_button = "disabled"
    /\ display = InitialDisplay
    /\ after_pending = 0
    /\ messagebox = "none"
    /\ threads = <<>>
    /\ fired = <<>>
    /\ log_calls = <<>>
    /\ io_failed = FALSE
    /\ frames_read = 0
    /\ session_frames = 0
    /\ detect_calls = 0
    /\ classified = 0
    /\ last_reading = [emotion |-> "Unknown", confidence |-> 0]
    /\ published = 0
    /\ shown = 0

\* ------------------------------------------- conditions of the code
\* initialize_camera: self.cap = cv2.VideoCapture(0)
VideoCapture(opened) == IF opened THEN "open" ELSE "unopened"

\* initialize_camera without its isOpened() test: VideoCapture(0) never raises
initialize_camera_unchecked(opened) == TRUE

\* initialize_camera: True unless self.cap.isOpened() is false
initialize_camera(opened) == opened

\* frame_count % 3 == 0
IsClassifyTick(frame_count) == frame_count % frame_interval = 0

\* the test dropped: every result of detect_emotion is taken as a reading
ReadingAcceptedAlways(emotion) == TRUE

\* the test written against the initial label "Unknown"
ReadingAcceptedWrongCase(emotion) == emotion # "Unknown"

\* if emotion != "unknown"
ReadingAccepted(emotion) == emotion # "unknown"

\* if confidence > 70
HighConfidence(confidence) == confidence > confidence_threshold

\* speak_emotion testing the engine only
VoiceAvailableEngineOnly(engine, enabled) == engine

\* speak_emotion: not (not self.tts_engine or not self.voice_enabled)
VoiceAvailable(engine, enabled) == engine /\ enabled

\* speak_emotion: not (current_time - self.last_voice_time < self.voice_cooldown)
CooldownElapsed(current_time, last) == ~(current_time - last < voice_cooldown)

\* cleanup: if self.cap: self.cap.release()
ReleasedCap(c) == IF c = "none" THEN "none" ELSE "released"

\* process_video clearing the flag when it leaves the loop on a failed read
FlagAfterReadCleared(ret, running) == ret /\ running

\* process_video: "if not ret: break" leaves self.is_running as it is
FlagAfterRead(ret, running) == running

\* cap.read(): the values ret can take on a capture in state c
ReadOutcomes(c) == IF c = "open" THEN {TRUE, FALSE} ELSE {FALSE}

\* detect_emotion: a reading of DeepFace.analyze, or the sentinel on an exception
DetectOutcomes == Results \cup {Sentinel}

\* log_emotion: the entry built from its arguments
LogEntry(r, t) == [timestamp |-> t, dominant_emotion |-> r.emotion,
                   confidence |-> r.confidence, all_emotions |-> r.all_emotions]

\* log_emotion with a json.load that never raises
LogReadableAlways(file) == TRUE

\* log_emotion: json.load raises on a file that holds no JSON document
LogReadable(file) == ~file.exists \/ file.valid

\* log_emotion: logs = json.load(f) if the file exists, else []
LogRead(file) == IF file.exists THEN file.logs ELSE <<>>

\* log_emotion: the file after open(log_file, 'w') and json.dump. A write that
\* fails leaves the file as it was (open raised) or cut short (dump raised).
LogWriteOutcomes(file, logs) == {JsonFile(logs), file, CorruptFile}

\* a get that returns the item put last
get_newest(q) == q[Len(q)]

\* queue.Queue.get_nowait(): the item put first
get_nowait(q) == Head(q)

\* update_gui: frame_queue.get_nowait() when not frame_queue.empty(); the
\* item the get returns leaves the queue
QueueAfterUpdate(q) ==
    IF q # <<>> THEN SelectSeq(q, LAMBDA x : x # get_nowait(q)) ELSE q

\* update_gui: the publication number of the item on display after the tick
ShownAfterUpdate(q, n) == IF q # <<>> THEN get_nowait(q).seq ELSE n

\* update_gui: the labels after showing the item taken from the queue
DisplayAfterUpdate(q, d) ==
    IF q # <<>>
    THEN [video |-> "frame", emotion |-> Upper(get_nowait(q).emotion),
          confidence |-> get_nowait(q).confidence]
    ELSE d

\* update_gui: if self.is_running: self.root.after(30, self.update_gui)
Rescheduled(running) == IF running THEN 1 ELSE 0

\* ------------------------------------------------ Tk thread handlers
\* EmotionGUI.start_camera, with the update_gui() call it ends with
\* (opened: whether cv2.VideoCapture(0) opens the device; limit: the number
\* of start commands the run accepts)
start_camera(opened, limit) ==
    /\ mode = "gui"
    /\ start_button = "normal"
    /\ Len(threads) < limit
    /\ cap' = VideoCapture(opened)
    /\   IF initialize_camera(opened)
         THEN /\ gui_running' = TRUE
              /\ start_button' = "disabled"
              /\ stop_button' = "normal"
              /\ threads' = Append(threads, NewThread)
              /\ frame_queue' = QueueAfterUpdate(frame_queue)
              /\ display' = DisplayAfterUpdate(frame_queue, display)
              /\ shown' = ShownAfterUpdate(frame_queue, shown)
              /\ after_pending' = after_pending + Rescheduled(TRUE)
              /\ session_frames' = 0
              /\ UNCHANGED messagebox
         ELSE /\ messagebox' = "Could not initialize camera"
              /\ UNCHANGED <<gui_running, start_button, stop_button, threads,
                             frame_queue, display, shown, after_pending,
                             session_frames>>
    /\ UNCHANGED <<mode, is_running, current_emotion, current_confidence,
                   voice_enabled, last_voice_time, tts_engine, log_file, now, console,
                   fired, log_calls, io_failed, frames_read, detect_calls, classified,
                   last_reading, published>>

\* EmotionGUI.stop_camera, with EmotionRecognitionSystem.cleanup
stop_camera ==
    /\ mode = "gui"
    /\ stop_button = "normal"
    /\ gui_running' = FALSE
    /\ is_running' = FALSE
    /\ cap' = ReleasedCap(cap)
    /\ start_button' = "normal"
    /\ stop_button' = "disabled"
    /\ display' = [display EXCEPT !.video = "Camera stopped"]
    /\ UNCHANGED <<mode, current_emotion, current_confidence, voice_enabled,
                   last_voice_time, tts_engine, log_file, now, console, frame_queue,
                   after_pending, messagebox, threads>>
    /\ UNCHANGED histvars

\* EmotionGUI.toggle_voice (its showinfo box changes no state)
toggle_voice ==
    /\ mode = "gui"
    /\ voice_enabled' = ~voice_enabled
    /\ UNCHANGED <<messagebox, mode, cap, is_running, current_emotion, current_confidence,
                   last_voice_time, tts_engine, log_file, now, console, display,
                   threads>>
    /\ UNCHANGED guivars
    /\ UNCHANGED histvars

\* EmotionGUI.update_gui, run as a root.after callback
update_gui ==
    /\ mode = "gui"
    /\ after_pending > 0
    /\ frame_queue' = QueueAfterUpdate(frame_queue)
    /\ display' = DisplayAfterUpdate(frame_queue, display)
    /\ shown' = ShownAfterUpdate(frame_queue, shown)
    /\ after_pending' = after_pending - 1 + Rescheduled(gui_running)
    /\ UNCHANGED <<mode, tts_engine, now, console, gui_running, start_button,
                   stop_button, messagebox, threads>>
    /\ UNCHANGED sysvars
    /\ UNCHANGED <<fired, log_calls, io_failed, frames_read, session_frames,
                   detect_calls, classified, last_reading, published>>

\* time.time() advances (limit: how far past its initial reading)
clock_tick(limit) ==
    /\ now < voice_cooldown + limit
    /\ now' = now + 1
    /\ UNCHANGED <<mode, tts_engine, console, display, messagebox, threads>>
    /\ UNCHANGED sysvars
    /\ UNCHANGED guivars
    /\ UNCHANGED histvars

\* ------------------------------------ process_video (thread t) steps
\* the step after log_emotion returns: speak_emotion is called if confidence > 70
AfterLog(r) == IF HighConfidence(r.confidence) THEN "speak_check" ELSE "publish"

\* while self.is_running:
pv_while(t) ==
    /\ threads[t].pc = "while"
    /\ threads' = [threads EXCEPT ![t].pc = IF gui_running THEN "read" ELSE "exited"]
    /\ UNCHANGED <<mode, tts_engine, now, console, display, messagebox>>
    /\ UNCHANGED sysvars
    /\ UNCHANGED guivars
    /\ UNCHANGED histvars

\* ret, frame = cap.read(); if not ret: break; flip; frame_count += 1;
\* if frame_count % 3 == 0   (ret: what cap.read() reports; limit: the frame bound)
pv_read(t, ret, limit) ==
    /\ threads[t].pc = "read"
    /\ ret \in ReadOutcomes(cap)
    /\   IF ret
         THEN /\ frames_read < limit
              /\ frames_read' = frames_read + 1
              /\ session_frames' = session_frames + 1
              /\ detect_calls' = IF IsClassifyTick(threads[t].frame_count + 1)
                                 THEN detect_calls + 1 ELSE detect_calls
              /\ threads' = [threads EXCEPT
                     ![t].frame_count = @ + 1,
                     ![t].pc = IF IsClassifyTick(threads[t].frame_count + 1)
                               THEN "detect" ELSE "publish"]
         ELSE /\ threads' = [threads EXCEPT ![t].pc = "exited"]
              /\ UNCHANGED <<frames_read, session_frames, detect_calls>>
    /\ gui_running' = FlagAfterRead(ret, gui_running)
    /\ UNCHANGED <<mode, tts_engine, now, console, display, messagebox, fired,
                   log_calls, io_failed, classified, last_reading, published, shown>>
    /\ UNCHANGED sysvars
    /\ UNCHANGED <<frame_queue, start_button, stop_button, after_pending>>

\* emotion, confidence, all_emotions = detect_emotion(frame);
\* if emotion != "unknown": self.emotion_system.current_emotion = emotion
pv_detect(t) ==
    /\ threads[t].pc = "detect"
    /\ \E r \in DetectOutcomes :
         /\ classified' = IF r \in Results THEN classified + 1 ELSE classified
         /\ last_reading' = IF r \in Results
                            THEN [emotion |-> r.emotion, confidence |-> r.confidence]
                            ELSE last_reading
         /\ IF ReadingAccepted(r.emotion)
            THEN /\ current_emotion' = r.emotion
                 /\ threads' = [threads EXCEPT ![t].result = r,
                                               ![t].pc = "set_confidence"]
            ELSE /\ threads' = [threads EXCEPT ![t].result = r, ![t].pc = "publish"]
                 /\ UNCHANGED current_emotion
    /\ UNCHANGED <<mode, cap, is_running, current_confidence, voice_enabled,
                   last_voice_time, tts_engine, log_file, now, console, display,
                   messagebox, fired, log_calls, io_failed, frames_read,
                   session_frames, detect_calls, published, shown>>
    /\ UNCHANGED guivars

\* self.emotion_system.current_confidence = confidence
pv_set_confidence(t) ==
    /\ threads[t].pc = "set_confidence"
    /\ current_confidence' = threads[t].result.confidence
    /\ threads' = [threads EXCEPT ![t].pc = "log_read"]
    /\ UNCHANGED <<mode, cap, is_running, current_emotion, voice_enabled,
                   last_voice_time, tts_engine, log_file, now, console, display,
                   messagebox>>
    /\ UNCHANGED guivars
    /\ UNCHANGED histvars

\* log_emotion, to logs.append(log_entry): the entry is built and the file read
pv_log_read(t) ==
    /\ threads[t].pc = "log_read"
    /\ LET entry == LogEntry(threads[t].result, now) IN
         /\ log_calls' = Append(log_calls, entry)
         /\ IF LogReadable(log_file)
            THEN /\ threads' = [threads EXCEPT
                        ![t].logs = Append(LogRead(log_file), entry),
                        ![t].pc = "log_write"]
                 /\ UNCHANGED messagebox
            ELSE /\ threads' = [threads EXCEPT ![t].pc = AfterLog(threads[t].result)]
                 /\ messagebox' = "Logging error"
    /\ UNCHANGED <<mode, tts_engine, now, console, display, fired, io_failed,
                   frames_read, session_frames, detect_calls, classified,
                   last_reading, published, shown>>
    /\ UNCHANGED sysvars
    /\ UNCHANGED guivars

\* log_emotion, from open(log_file, 'w'): the whole list is written back
\* (f: the file the write leaves behind)
pv_log_write(t, f) ==
    /\ threads[t].pc = "log_write"
    /\ f \in LogWriteOutcomes(log_file, threads[t].logs)
    /\   /\ log_file' = f
         /\ io_failed' = (io_failed \/ f # JsonFile(threads[t].logs))
         /\ messagebox' = IF f # JsonFile(threads[t].logs)
                          THEN "Logging error" ELSE messagebox
    /\ threads' = [threads EXCEPT ![t].logs = <<>>,
                                  ![t].pc = AfterLog(threads[t].result)]
    /\ UNCHANGED <<mode, cap, is_running, current_emotion, current_confidence,
                   voice_enabled, last_voice_time, tts_engine, now, console, display,
                   fired, log_calls, frames_read, session_frames, detect_calls,
                   classified, last_reading, published, shown>>
    /\ UNCHANGED guivars

\* speak_emotion, to the cooldown test: the two early returns
pv_speak_check(t) ==
    /\ threads[t].pc = "speak_check"
    /\ IF VoiceAvailable(tts_engine, voice_enabled)
          /\ CooldownElapsed(now, last_voice_time)
       THEN threads' = [threads EXCEPT ![t].current_time = now,
                                       ![t].seen_voice = voice_enabled,
                                       ![t].pc = "speak_start"]
       ELSE threads' = [threads EXCEPT ![t].pc = "publish"]
    /\ UNCHANGED <<mode, tts_engine, now, console, display, messagebox>>
    /\ UNCHANGED sysvars
    /\ UNCHANGED guivars
    /\ UNCHANGED histvars

\* speak_emotion: threading.Thread(target=speak).start();
\* self.last_voice_time = current_time
pv_speak_start(t) ==
    /\ threads[t].pc = "speak_start"
    /\ fired' = Append(fired, [time |-> threads[t].current_time,
                               emotion |-> threads[t].result.emotion,
                               confidence |-> threads[t].result.confidence,
                               seen_voice |-> threads[t].seen_voice])
    /\ last_voice_time' = threads[t].current_time
    /\ threads' = [threads EXCEPT ![t].current_time = 0, ![t].seen_voice = FALSE,
                                  ![t].pc = "publish"]
    /\ UNCHANGED <<mode, cap, is_running, current_emotion, current_confidence,
                   voice_enabled, tts_engine, log_file, now, console, display,
                   messagebox, log_calls, io_failed, frames_read, session_frames,
                   detect_calls, classified, last_reading, published, shown>>
    /\ UNCHANGED guivars

\* self.frame_queue.put((frame_tk, current_emotion, current_confidence))
pv_publish(t) ==
    /\ threads[t].pc = "publish"
    /\ frame_queue' = Append(frame_queue, [seq |-> published + 1,
                                           emotion |-> current_emotion,
                                           confidence |-> current_confidence])
    /\ published' = published + 1
    /\ threads' = [threads EXCEPT ![t].result = NoResult, ![t].pc = "while"]
    /\ UNCHANGED <<mode, tts_engine, now, console, gui_running, start_button,
                   stop_button, display, after_pending, messagebox>>
    /\ UNCHANGED sysvars
    /\ UNCHANGED <<fired, log_calls, io_failed, frames_read, session_frames,
                   detect_calls, classified, last_reading, shown>>

\* the steps of process_video that draw nothing from the camera or the disk
pv_step(t) ==
    \/ pv_while(t)
    \/ pv_detect(t)
    \/ pv_set_confidence(t)
    \/ pv_log_read(t)
    \/ pv_speak_check(t)
    \/ pv_speak_start(t)
    \/ pv_publish(t)

\* -------------------------------------------------- run_console_mode
\* cv2.waitKey(1) & 0xFF: the keys the loop tells apart
Keys == {"q", "v", "s", "none"}

\* run_console_mode, to the loop: initialize_camera, self.is_running = True
console_start ==
    /\ mode = "console"
    /\ console.pc = "start"
    /\ \E opened \in BOOLEAN :
         /\ cap' = VideoCapture(opened)
         /\ IF initialize_camera(opened)
            THEN /\ is_running' = TRUE
                 /\ console' = [console EXCEPT !.pc = "loop", !.frame_count = 0]
                 /\ UNCHANGED messagebox
            ELSE /\ console' = [console EXCEPT !.pc = "returned"]
                 /\ messagebox' = "Error initializing camera"
                 /\ UNCHANGED is_running
    /\ UNCHANGED <<mode, current_emotion, current_confidence, voice_enabled,
                   last_voice_time, tts_engine, log_file, now, display, threads>>
    /\ UNCHANGED guivars
    /\ UNCHANGED histvars

\* One iteration of the while loop of run_console_mode, and cleanup() when the
\* iteration leaves the loop by break. ret, r, f and key are what cap.read(),
\* detect_emotion, the log write and cv2.waitKey deliver in this iteration.
ConsoleIteration(ret, r, f, key) ==
    LET fc         == console.frame_count + 1
        classify   == ret /\ IsClassifyTick(fc)
        accepted   == classify /\ ReadingAccepted(r.emotion)
        \* the local all_emotions is bound by the first detect_emotion call only
        local_all  == IF classify THEN Bound(r.all_emotions) ELSE console.all_emotions
        entry      == LogEntry(r, now)
        written    == accepted /\ LogReadable(log_file)
        speaks     == /\ accepted
                      /\ HighConfidence(r.confidence)
                      /\ VoiceAvailable(tts_engine, voice_enabled)
                      /\ CooldownElapsed(now, last_voice_time)
        \* draw_emotion_info(frame, ..., all_emotions) reads the local
        raises     == ret /\ ~local_all.bound
        emotion1   == IF accepted THEN r.emotion ELSE current_emotion
        confidence1 == IF accepted THEN r.confidence ELSE current_confidence
        quits      == ret /\ ~raises /\ key = "q"
        leaves     == ~ret \/ quits
    IN  /\ ret => frames_read < MaxFrames
        /\ written => f \in LogWriteOutcomes(log_file, Append(LogRead(log_file), entry))
        /\ ~written => f = log_file
        /\ frames_read' = IF ret THEN frames_read + 1 ELSE frames_read
        /\ session_frames' = IF ret THEN session_frames + 1 ELSE session_frames
        /\ current_emotion' = emotion1
        /\ current_confidence' = confidence1
        /\ detect_calls' = IF classify THEN detect_calls + 1 ELSE detect_calls
        /\ classified' = IF classify /\ r \in Results
                         THEN classified + 1 ELSE classified
        /\ last_reading' = IF classify /\ r \in Results
                           THEN [emotion |-> r.emotion, confidence |-> r.confidence]
                           ELSE last_reading
        /\ log_calls' = IF accepted THEN Append(log_calls, entry) ELSE log_calls
        /\ log_file' = f
        /\ io_failed' = (io_failed \/ (written /\
                            f # JsonFile(Append(LogRead(log_file), entry))))
        /\ fired' = IF speaks
                    THEN Append(fired, [time |-> now, emotion |-> r.emotion,
                                        confidence |-> r.confidence,
                                        seen_voice |-> voice_enabled])
                    ELSE fired
        /\ last_voice_time' = IF speaks THEN now ELSE last_voice_time
        /\ display' = IF ret /\ ~raises
                      THEN [video |-> IF quits THEN "window destroyed" ELSE "frame",
                            emotion |-> Upper(emotion1), confidence |-> confidence1]
                      ELSE IF ~ret THEN [display EXCEPT !.video = "window destroyed"]
                      ELSE display
        /\ voice_enabled' = IF ret /\ ~raises /\ key = "v"
                            THEN ~voice_enabled ELSE voice_enabled
        /\ messagebox' = IF ~ret THEN "Error: Could not read frame"
                         ELSE IF raises THEN "Error: UnboundLocalError"
                         ELSE IF key = "v" THEN "Voice feedback toggled"
                         ELSE IF key = "s" THEN "Screenshot saved"
                         ELSE messagebox
        /\ is_running' = IF leaves THEN FALSE ELSE is_running
        /\ cap' = IF leaves THEN ReleasedCap(cap) ELSE cap
        /\ console' = [pc |-> IF raises THEN "error"
                              ELSE IF leaves THEN "stopped" ELSE "loop",
                       frame_count |-> IF ret THEN fc ELSE console.frame_count,
                       all_emotions |-> IF ret THEN local_all ELSE console.all_emotions]

console_tick ==
    /\ mode = "console"
    /\ console.pc = "loop"
    /\ is_running
    /\ \E ret \in ReadOutcomes(cap), r \in DetectOutcomes, key \in Keys,
          f \in {log_file, CorruptFile} \cup
                {JsonFile(Append(LogRead(log_file), LogEntry(x, now))) : x \in Results} :
         ConsoleIteration(ret, r, f, key)
    /\ UNCHANGED <<mode, tts_engine, now, threads, published, shown>>
    /\ UNCHANGED guivars

\* ------------------------------------------------------ specification
Next ==
    \/ console_start
    \/ console_tick
    \/ \E opened \in BOOLEAN : start_camera(opened, MaxStarts)
    \/ stop_camera
    \/ toggle_voice
    \/ update_gui
    \/ clock_tick(MaxClock)
    \/ \E t \in 1..Len(threads) : pv_step(t)
    \/ \E t \in 1..Len(threads), ret \in BOOLEAN : pv_read(t, ret, MaxFrames)
    \/ \E t \in 1..Len(threads) :
         \E f \in LogWriteOutcomes(log_file, threads[t].logs) : pv_log_write(t, f)

Spec == Init /\ [][Next]_vars

\* The GUI with a working camera, disk and speech engine, the Tk thread running
\* only the two buttons: every behaviour of SpecRace is a behaviour of the
\* program in which no timer callback has run yet. It leaves room for two
\* process_video threads to reach a classification each.
InitRace == Init /\ mode = "gui" /\ tts_engine

NextRace ==
    \/ start_camera(TRUE, RaceStarts)
    \/ stop_camera
    \/ \E t \in 1..Len(threads) : pv_step(t)
    \/ \E t \in 1..Len(threads) : pv_read(t, cap = "open", RaceFrames)
    \/ \E t \in 1..Len(threads) : pv_log_write(t, JsonFile(threads[t].logs))

SpecRace == InitRace /\ [][NextRace]_vars

\* SpecRace with one session: a single process_video thread that runs long
\* enough for a second classification tick.
NextSolo ==
    \/ start_camera(TRUE, SoloStarts)
    \/ stop_camera
    \/ \E t \in 1..Len(threads) : pv_step(t)
    \/ \E t \in 1..Len(threads) : pv_read(t, cap = "open", SoloFrames)
    \/ \E t \in 1..Len(threads) : pv_log_write(t, JsonFile(threads[t].logs))

SpecSolo == InitRace /\ [][NextSolo]_vars

\* SpecSolo on a disk that can fail: a write of log_emotion may leave the file
\* as it was or cut short, and the next call then reads a corrupt file.
NextDisk ==
    \/ start_camera(TRUE, SoloStarts)
    \/ stop_camera
    \/ \E t \in 1..Len(threads) : pv_step(t)
    \/ \E t \in 1..Len(threads) : pv_read(t, cap = "open", SoloFrames)
    \/ \E t \in 1..Len(threads) :
         \E f \in LogWriteOutcomes(log_file, threads[t].logs) : pv_log_write(t, f)

SpecDisk == InitRace /\ [][NextDisk]_vars

\* SpecRace with the clock running, far enough for a cooldown to elapse.
NextRaceClock ==
    \/ start_camera(TRUE, RaceStarts)
    \/ stop_camera
    \/ clock_tick(RaceClock)
    \/ \E t \in 1..Len(threads) : pv_step(t)
    \/ \E t \in 1..Len(threads) : pv_read(t, cap = "open", RaceFrames)
    \/ \E t \in 1..Len(threads) : pv_log_write(t, JsonFile(threads[t].logs))

SpecRaceClock == InitRace /\ [][NextRaceClock]_vars

\* ============================================================ claims
ThreadIds == 1..Len(threads)

\* ---- C1 (stated as claimed; fails under SpecRaceClock) -------------------
\* C1: any two speech launches made by speak_emotion are at least
\* voice_cooldown seconds of clock time apart.
C1_CooldownBetweenLaunches ==
    \A i, j \in 1..Len(fired) :
        i < j => fired[j].time - fired[i].time >= voice_cooldown

\* ---- C2 ------------------------------------------------------------------
\* C2 as claimed: a speech is launched only for a confidence above 70 and
\* only while voice_enabled is true at the launch.
C2_NoLaunchWhileDisabled ==
    [][Len(fired') > Len(fired) =>
          /\ voice_enabled
          /\ fired'[Len(fired')].confidence > confidence_threshold]_vars

\* C2 amended: every speech launched is for a confidence above 70, by a
\* speak_emotion call whose test of voice_enabled found it true, with a speech
\* engine present; a thread past that test holds such a reading too.
C2_LaunchPassedTheGate ==
    /\ \A i \in 1..Len(fired) :
          /\ fired[i].confidence > confidence_threshold
          /\ fired[i].seen_voice
    /\ \A t \in ThreadIds :
          threads[t].pc = "speak_start" =>
             /\ threads[t].result.confidence > confidence_threshold
             /\ threads[t].seen_voice
    /\ fired # <<>> => tts_engine

\* C2 witness: a speech has been launched although voice is disabled by now,
\* and its reading had confidence above 70.
C2_Witness ==
    /\ mode = "gui"
    /\ Len(fired) = 1
    /\ fired[1].confidence > confidence_threshold
    /\ ~voice_enabled

\* ---- C3 (stated as claimed; fails under SpecRace) ------------------------
\* C3: the k-th frame acquired since the session started is classified if and
\* only if k is a multiple of 3.
C3_ClassifyEveryThirdSessionFrame ==
    [][frames_read' # frames_read =>
          ((detect_calls' # detect_calls) <=>
               (session_frames' % frame_interval = 0))]_vars

\* ---- C4 ------------------------------------------------------------------
\* the step in which detect_emotion returns the sentinel to thread t
ClassifierFails(t) ==
    /\ threads[t].pc = "detect"
    /\ threads'[t].pc # "detect"
    /\ threads'[t].result = Sentinel

\* C4 as claimed: when the classifier fails, the current reading becomes the
\* sentinel (label "unknown" in any case, confidence 0).
C4_FailureResetsReading ==
    [][\A t \in ThreadIds :
          ClassifierFails(t) =>
             /\ Upper(current_emotion') = "UNKNOWN"
             /\ current_confidence' = 0]_vars

\* C4 amended: when the classifier fails, detect_emotion returns the sentinel,
\* the current reading keeps the value it had, no log call is made, no speech
\* is launched, and the thread goes on to publish the frame.
C4_FailureKeepsReading ==
    [][\A t \in ThreadIds :
          ClassifierFails(t) =>
             /\ current_emotion' = current_emotion
             /\ current_confidence' = current_confidence
             /\ log_file' = log_file
             /\ log_calls' = log_calls
             /\ fired' = fired
             /\ last_voice_time' = last_voice_time
             /\ threads'[t].pc = "publish"]_vars

\* C4 witness: a thread is about to publish a frame whose classification
\* failed, while the current reading is still an earlier successful one.
C4_Witness ==
    \E t \in ThreadIds :
        /\ threads[t].pc = "publish"
        /\ threads[t].result = Sentinel
        /\ current_emotion = "happy"
        /\ current_confidence = 82
        /\ Len(log_calls) = 1

\* ---- C5 (stated as claimed; fails under Spec) ----------------------------
\* C5: the console loop is never left by an error: it ends only by the quit
\* key or a failed frame read.
C5_ConsoleLoopNeverRaises == console.pc # "error"

\* ---- C6 (stated as claimed; fails under Spec) ----------------------------
\* C6: a tick whose frame counter is no multiple of 3 leaves the reading, the
\* log and last_voice_time as they are and renders (console) or publishes
\* (GUI) the last computed reading.
C6_ReadingReusedBetweenClassifications ==
    [][/\ (/\ console.pc = "loop"
           /\ console'.frame_count # console.frame_count
           /\ ~IsClassifyTick(console'.frame_count))
          => /\ console'.pc # "error"
             /\ <<current_emotion', current_confidence', log_file', last_voice_time'>>
                  = <<current_emotion, current_confidence, log_file, last_voice_time>>
             /\ display'.emotion = Upper(last_reading.emotion)
             /\ display'.confidence = last_reading.confidence
       /\ \A t \in ThreadIds :
             (/\ threads[t].pc = "publish"
              /\ threads'[t].pc # "publish"
              /\ ~IsClassifyTick(threads[t].frame_count))
             => /\ <<current_emotion', current_confidence', log_file', last_voice_time'>>
                     = <<current_emotion, current_confidence, log_file, last_voice_time>>
                /\ frame_queue'[Len(frame_queue')].emotion = last_reading.emotion
                /\ frame_queue'[Len(frame_queue')].confidence
                     = last_reading.confidence]_vars

\* ---- C7 (stated as claimed; fails under SpecRace) ------------------------
\* C7: once the log_emotion calls made so far have returned, and no write has
\* failed, the log file holds exactly their entries, in call order.
C7_LogHoldsEveryCall ==
    (/\ ~io_failed
     /\ \A t \in ThreadIds : threads[t].pc # "log_write")
    => /\ log_file.logs = log_calls
       /\ log_file.exists <=> log_calls # <<>>

\* ---- C8 (stated as claimed; fails under Spec) ----------------------------
\* C8: when the capture loop has ended on a quit/stop command or a failed
\* frame read, the session is flagged not running and the camera is released.
C8_LoopEndedImpliesStopped ==
    /\ (mode = "console" /\ console.pc = "stopped")
          => (~is_running /\ cap # "open")
    /\ (mode = "gui" /\ threads # <<>> /\ \A t \in ThreadIds : threads[t].pc = "exited")
          => (~gui_running /\ cap # "open")

\* ---- C9 ------------------------------------------------------------------
\* C9: a start command on which the camera fails to open leaves the session
\* idle (running flags false, Start enabled), surfaces an error, and starts
\* no process_video thread and no update_gui callback; the console loop is
\* not entered.
C9_OpenFailureStaysIdle ==
    [][(cap # "unopened" /\ cap' = "unopened") =>
          /\ ~gui_running /\ ~gui_running'
          /\ ~is_running /\ ~is_running'
          /\ start_button' = "normal"
          /\ threads' = threads
          /\ after_pending' = after_pending
          /\ frame_queue' = frame_queue
          /\ messagebox' \in {"Could not initialize camera",
                              "Error initializing camera"}
          /\ console'.pc # "loop"]_vars

\* C9 witness: the GUI after a failed start: error shown, idle, no thread.
C9_Witness ==
    /\ mode = "gui"
    /\ cap = "unopened"
    /\ messagebox = "Could not initialize camera"
    /\ ~gui_running
    /\ start_button = "normal"
    /\ threads = <<>>
    /\ after_pending = 0

\* ---- C10 -----------------------------------------------------------------
\* threads that hold a reading accepted by the loop and have not called
\* log_emotion yet
AboutToLog == {t \in ThreadIds : threads[t].pc \in {"set_confidence", "log_read"}}

\* C10: log_emotion is called once for every reading the classifier returned
\* and for nothing else, with that reading's label, confidence and scores.
C10_OneLogCallPerReading ==
    /\ Len(log_calls) + Cardinality(AboutToLog) = classified
    /\ \A i \in 1..Len(log_calls) :
          \E r \in Results :
             /\ log_calls[i].dominant_emotion = r.emotion
             /\ log_calls[i].confidence = r.confidence
             /\ log_calls[i].all_emotions = r.all_emotions
    /\ \A t \in ThreadIds :
          threads[t].pc = "log_write" =>
             /\ threads[t].logs # <<>>
             /\ threads[t].logs[Len(threads[t].logs)] \in
                   {LogEntry(threads[t].result, c) : c \in 0..now}
             /\ \E i \in 1..Len(log_calls) :
                   log_calls[i] = threads[t].logs[Len(threads[t].logs)]

\* C10 witness: one reading was returned and one call made, the write pending.
C10_Witness ==
    /\ classified = 1
    /\ Len(log_calls) = 1
    /\ \E t \in ThreadIds : threads[t].pc = "log_write"

\* ---- C11 -----------------------------------------------------------------
\* thread t's log_emotion finds a file that json.load cannot parse
LogReadFails(t) ==
    /\ threads[t].pc = "log_read"
    /\ threads'[t].pc # "log_read"
    /\ log_file.exists /\ ~log_file.valid

\* thread t's log_emotion fails while writing the list back
LogWriteFails(t) ==
    /\ threads[t].pc = "log_write"
    /\ threads'[t].pc # "log_write"
    /\ log_file' # JsonFile(threads[t].logs)

\* C11: when log_emotion fails to read the existing file or to write it back,
\* it reports the error and returns, the record is not added to the file, the
\* thread goes on with the step that follows log_emotion in the tick, and the
\* session keeps running with its camera.
C11_LoggingFailureRecovered ==
    [][\A t \in ThreadIds :
          (LogReadFails(t) \/ LogWriteFails(t)) =>
             /\ threads'[t].pc = AfterLog(threads[t].result)
             /\ log_file' \in {log_file, CorruptFile}
             /\ messagebox' = "Logging error"
             /\ gui_running' = gui_running
             /\ is_running' = is_running
             /\ cap' = cap]_vars

\* C11 witness: the second log_emotion call of a running session met the file
\* a failed write left corrupt, and its thread is at the step after the call.
C11_Witness ==
    /\ gui_running
    /\ log_file = CorruptFile
    /\ io_failed
    /\ Len(log_calls) = 2
    /\ messagebox = "Logging error"
    /\ \E t \in ThreadIds : threads[t].pc \in {"speak_check", "publish"}
                              /\ threads[t].result \in Results

\* ---- C12 (stated as claimed; fails under Spec) ---------------------------
\* C12: in the GUI the camera is released only once every process_video
\* thread has seen the cleared flag and left its loop; in particular it is
\* never released while a thread is about to call cap.read().
C12_ReleaseAfterThreadExit ==
    (mode = "gui" /\ cap = "released") =>
        \A t \in ThreadIds : threads[t].pc = "exited"

\* ---- C13 (stated as claimed; fails under SpecRace) -----------------------
\* the threads that have read the log file and not yet written it back
LoggersInFlight == {t \in ThreadIds : threads[t].pc = "log_write"}

\* C13: over every sequence of start and stop commands, at most one
\* log_emotion read-modify-rewrite is in progress at any time.
C13_OneLoggerInFlight == Cardinality(LoggersInFlight) <= 1

\* ---- C14 (stated as claimed; fails under Spec) ---------------------------
\* C14: frame_queue is bounded: whatever the interleaving of publishes and
\* update_gui ticks, its length stays below a fixed K. Stated for the largest
\* K that is still below the number of frames the camera delivers in a run.
C14_QueueBounded == Len(frame_queue) < MaxFrames

\* ---- C15 -----------------------------------------------------------------
\* the place of each step of process_video in the handling of one frame
StepRank(pc) ==
    CASE pc = "while" -> 0
      [] pc = "read" -> 1
      [] pc = "detect" -> 2
      [] pc = "set_confidence" -> 3
      [] pc = "log_read" -> 4
      [] pc = "log_write" -> 5
      [] pc = "speak_check" -> 6
      [] pc = "speak_start" -> 7
      [] pc = "publish" -> 8
      [] OTHER -> 9

UiTick == after_pending' # after_pending \/ shown' # shown

\* C16: a UI tick that finds frame_queue non-empty displays the item published
\* last; a tick that finds it empty leaves the display as it is.
C16_TickShowsLatestItem ==
    [][UiTick =>
          IF frame_queue # <<>>
          THEN LET latest == frame_queue[Len(frame_queue)] IN
                 /\ shown' = latest.seq
                 /\ display' = [video |-> "frame",
                                emotion |-> Upper(latest.emotion),
                                confidence |-> latest.confidence]
          ELSE display' = display /\ shown' = shown]_vars

\* ---- C17 -----------------------------------------------------------------
\* a step taken by one of the process_video threads
ThreadStep == \E t \in ThreadIds : threads'[t] # threads[t]

\* C17 as claimed: a process_video thread writes no session state but the
\* current reading; voice_enabled, last_voice_time and the running flags are
\* written by the Tk thread only.
C17_ThreadWritesOnlyReading ==
    [][ThreadStep =>
          /\ voice_enabled' = voice_enabled
          /\ last_voice_time' = last_voice_time
          /\ gui_running' = gui_running
          /\ is_running' = is_running]_vars

\* C17 amended: a process_video thread writes the current reading and, in
\* speak_emotion when it launches a speech, last_voice_time (set to the time
\* it read before the cooldown test); it writes neither voice_enabled nor a
\* running flag, and it neither opens nor releases the camera.
C17_ThreadWritesReadingAndVoiceTime ==
    [][\A t \in ThreadIds :
          threads'[t] # threads[t] =>
             /\ voice_enabled' = voice_enabled
             /\ gui_running' = gui_running
             /\ is_running' = is_running
             /\ cap' = cap
             /\ (last_voice_time' # last_voice_time =>
                    /\ threads[t].pc = "speak_start"
                    /\ last_voice_time' = threads[t].current_time)
             /\ (threads[t].pc = "speak_start" =>
                    last_voice_time' = threads[t].current_time)
             /\ (current_emotion' # current_emotion => threads[t].pc = "detect")
             /\ (current_confidence' # current_confidence =>
                    threads[t].pc = "set_confidence")]_vars

\* C17 witness: a thread has launched a speech and set last_voice_time, and a
\* thread has left its loop on a failed read with the flag still set.
C17_Witness ==
    /\ mode = "gui"
    /\ last_voice_time = voice_cooldown
    /\ Len(fired) = 1
    /\ gui_running
    /\ \E t \in ThreadIds : threads[t].pc = "exited" /\ threads[t].frame_count = 3

\* ---- C18 (stated as claimed; fails under Spec) ---------------------------
\* C18: from the end of stop_camera to the next successful start_camera the
\* video label reads "Camera stopped" (the flag is cleared by stop_camera
\* only, so a cleared flag with a thread started marks that interval).
C18_StoppedDisplayStays ==
    (mode = "gui" /\ ~gui_running /\ threads # <<>>)
        => display.video = "Camera stopped"

\* ---- C19 (stated as claimed; fails under SpecRace) -----------------------
\* the label/confidence pairs of the initial reading and of the classifier's
\* successful results
WholeReadings ==
    {<<"Unknown", 0>>} \cup {<<r.emotion, r.confidence>> : r \in Results}

\* C19: every item put on frame_queue carries the label and the confidence of
\* one and the same successful classification, or both initial values.
C19_PublishedPairIsOneReading ==
    \A i \in 1..Len(frame_queue) :
        <<frame_queue[i].emotion, frame_queue[i].confidence>> \in WholeReadings

====
